---- MODULE Spec2Model ----
(***************************************************************************)
(* Raffle: a lottery contract driven by Chainlink Automation (checkUpkeep  *)
(* / performUpkeep) and Chainlink VRF (fulfillRandomWords).                *)
(*                                                                         *)
(* Every action is one transaction (or one view call) against the          *)
(* contract.  A transaction that reverts leaves the contract storage and   *)
(* its balance as they were; what it did is recorded in tx, the receipt    *)
(* of the most recent call.                                                *)
(***************************************************************************)
EXTENDS Integers, Sequences, FiniteSets, TLC

\* ---------------------------------------------------------------- bounds
MaxPlayers == 4        \* longest s_players explored
MaxTime == 5           \* last block timestamp explored
MaxWord == 7           \* largest random word delivered
MaxFee == 1            \* largest entrance fee the contract is deployed with
MaxInterval == 1       \* largest interval the contract is deployed with

DeployTime == 1        \* block.timestamp of the deployment

\* ------------------------------------------------------------- addresses
ZeroAddress == "0x0"
\* "carol" is a contract account: its receive function may revert.
Addresses == {"alice", "carol"}
ContractAccounts == {"carol"}
\* sender recorded for calls that do not read msg.sender
Anyone == "anyone"
\* fulfillRandomWords is internal: only the VRF coordinator reaches it
Coordinator == "coordinator"

OPEN == "OPEN"
CALCULATING == "CALCULATING"
RaffleState == {OPEN, CALCULATING}

VARIABLES
    i_entranceFee,     \* immutable, set by the constructor
    i_interval,        \* immutable, set by the constructor
    s_raffleState,
    s_players,
    s_recentWinner,
    s_lastTimeStamp,
    balance,           \* address(this).balance
    blockTimestamp,    \* block.timestamp
    s_nextRequestId,   \* VRF coordinator: id the next request gets
    s_requests,        \* VRF coordinator: requests not yet fulfilled
    deposited,         \* history: sum of msg.value of the accepted entries of this round
    entrants,          \* history: senders of the accepted entries of this round
    payouts,           \* history: number of fulfillRandomWords calls that paid a winner
    tx                 \* receipt of the most recent call

vars == <<i_entranceFee, i_interval, s_raffleState, s_players, s_recentWinner,
          s_lastTimeStamp, balance, blockTimestamp, s_nextRequestId,
          s_requests, deposited, entrants, payouts, tx>>

storage == <<s_raffleState, s_players, s_recentWinner, s_lastTimeStamp, balance>>

\* ---------------------------------------------------------------- events
RaffleEnter(player) == [name |-> "RaffleEnter", addr |-> player, id |-> 0]
RequestedRaffleWinner(requestId) ==
    [name |-> "RequestedRaffleWinner", addr |-> ZeroAddress, id |-> requestId]
WinnerPicked(winner) == [name |-> "WinnerPicked", addr |-> winner, id |-> 0]

\* The receipt of a call: what was called, by whom, with how much value and
\* which arguments, how it ended, what it returned, and what it emitted,
\* sent and requested from the VRF coordinator; for fulfillRandomWords also
\* the s_players array the call read and the call the winner made from its
\* receive function.  A reverted call keeps the defaults: no events, no
\* transfers, no requests.
Call(op, sender) ==
    [op |-> op, sender |-> sender, value |-> 0, requestId |-> 0, word |-> 0,
     index |-> 0, players |-> <<>>, error |-> "none", ret |-> FALSE,
     player |-> ZeroAddress, events |-> <<>>, transfers |-> <<>>,
     requests |-> <<>>,
     nested |-> [op |-> "none", value |-> 0, error |-> "none"]]

\* ----------------------------------------------------------- constructor
Init ==
    /\ i_entranceFee \in 0..MaxFee
    /\ i_interval \in 1..MaxInterval
    /\ blockTimestamp = DeployTime
    /\ s_raffleState = OPEN
    /\ s_lastTimeStamp = blockTimestamp
    /\ s_players = <<>>
    /\ s_recentWinner = ZeroAddress
    /\ balance = 0
    /\ s_nextRequestId = 1
    /\ s_requests = {}
    /\ deposited = 0
    /\ entrants = <<>>
    /\ payouts = 0
    /\ tx = Call("constructor", ZeroAddress)

\* A new block is mined: time moves on.
Mine ==
    /\ blockTimestamp < MaxTime
    /\ blockTimestamp' = blockTimestamp + 1
    /\ tx' = Call("mine", ZeroAddress)
    /\ UNCHANGED <<i_entranceFee, i_interval, storage, s_nextRequestId,
                   s_requests, deposited, entrants, payouts>>

\* ------------------------------------------------------------ enterRaffle
enterRaffleError_feeExcluded(value) ==
    IF value <= i_entranceFee THEN "NotEnoughETHEntered"
    ELSE IF s_raffleState = CALCULATING THEN "NotOpen"
    ELSE "none"

enterRaffleError_noFeeCheck(value) ==
    IF s_raffleState = CALCULATING THEN "NotOpen"
    ELSE "none"

enterRaffleError_noStateCheck(value) ==
    IF value < i_entranceFee THEN "NotEnoughETHEntered"
    ELSE "none"

enterRaffleError(value) ==
    IF value < i_entranceFee THEN "NotEnoughETHEntered"
    ELSE IF s_raffleState = CALCULATING THEN "NotOpen"
    ELSE "none"

push_unique(sender) ==
    IF \E i \in 1..Len(s_players) : s_players[i] = sender
    THEN s_players ELSE Append(s_players, sender)

\* s_players.push(msg.sender)
push(sender) == Append(s_players, sender)

enterRaffle(sender, value) ==
    LET error == enterRaffleError(value) IN
    /\ Len(s_players) < MaxPlayers
    /\ IF error # "none"
       THEN /\ tx' = [Call("enterRaffle", sender) EXCEPT
                            !.value = value, !.error = error]
            /\ UNCHANGED <<storage, deposited, entrants>>
       ELSE /\ s_players' = push(sender)
            /\ balance' = balance + value
            /\ deposited' = deposited + value
            /\ entrants' = Append(entrants, sender)
            /\ tx' = [Call("enterRaffle", sender) EXCEPT
                            !.value = value,
                            !.events = <<RaffleEnter(sender)>>]
            /\ UNCHANGED <<s_raffleState, s_recentWinner, s_lastTimeStamp>>
    /\ UNCHANGED <<i_entranceFee, i_interval, blockTimestamp,
                   s_nextRequestId, s_requests, payouts>>

\* ------------------------------------------------------------ checkUpkeep
upkeepNeeded_atInterval ==
    /\ s_raffleState = OPEN
    /\ (blockTimestamp - s_lastTimeStamp) >= i_interval
    /\ Len(s_players) > 0
    /\ balance > 0

upkeepNeeded_timeOnly ==
    /\ s_raffleState = OPEN
    /\ (blockTimestamp - s_lastTimeStamp) > i_interval

upkeepNeeded_noStateCheck ==
    /\ (blockTimestamp - s_lastTimeStamp) > i_interval
    /\ Len(s_players) > 0
    /\ balance > 0

upkeepNeeded_noTimeCheck ==
    /\ s_raffleState = OPEN
    /\ Len(s_players) > 0
    /\ balance > 0

upkeepNeeded_beforeInterval ==
    /\ s_raffleState = OPEN
    /\ (blockTimestamp - s_lastTimeStamp) < i_interval
    /\ Len(s_players) > 0
    /\ balance > 0

upkeepNeeded ==
    /\ s_raffleState = OPEN
    /\ (blockTimestamp - s_lastTimeStamp) > i_interval
    /\ Len(s_players) > 0
    /\ balance > 0

checkUpkeep_closes ==
    /\ tx' = [Call("checkUpkeep", Anyone) EXCEPT !.ret = upkeepNeeded]
    /\ s_raffleState' = IF upkeepNeeded THEN CALCULATING ELSE s_raffleState
    /\ UNCHANGED <<i_entranceFee, i_interval, s_players, s_recentWinner,
                   s_lastTimeStamp, balance, blockTimestamp,
                   s_nextRequestId, s_requests, deposited, entrants, payouts>>

\* msg.sender is not read: the receipt is the same for every caller.
checkUpkeep ==
    /\ tx' = [Call("checkUpkeep", Anyone) EXCEPT !.ret = upkeepNeeded]
    /\ UNCHANGED <<i_entranceFee, i_interval, storage, blockTimestamp,
                   s_nextRequestId, s_requests, deposited, entrants, payouts>>

\* ---------------------------------------------------------- performUpkeep
closedState_staysOpen == OPEN

\* s_raffleState = RaffleState.CALCULATING ("closing the raffle first")
closedState == CALCULATING

stateAfterCoordinatorRevert_closed == closedState

\* s_raffleState once requestRandomWords has reverted: the revert bubbles up
\* and undoes the assignment made before the call.
stateAfterCoordinatorRevert == s_raffleState

\* coordinatorOk: whether i_vrfCoordinator.requestRandomWords returns (it
\* reverts for an invalid or unfunded subscription, and the revert bubbles up).
\* msg.sender is not read: keepers and everyone else are treated alike.
performUpkeep(coordinatorOk) ==
    /\ IF ~upkeepNeeded
       THEN /\ tx' = [Call("performUpkeep", Anyone) EXCEPT
                            !.error = "UpkeepNotNeeded"]
            /\ UNCHANGED <<storage, s_nextRequestId, s_requests>>
       ELSE IF ~coordinatorOk
       THEN /\ tx' = [Call("performUpkeep", Anyone) EXCEPT
                            !.error = "CoordinatorReverted"]
            /\ s_raffleState' = stateAfterCoordinatorRevert
            /\ UNCHANGED <<s_players, s_recentWinner, s_lastTimeStamp,
                           balance, s_nextRequestId, s_requests>>
       ELSE LET requestId == s_nextRequestId IN
            /\ s_raffleState' = closedState
            /\ s_requests' = s_requests \cup {requestId}
            /\ s_nextRequestId' = s_nextRequestId + 1
            /\ tx' = [Call("performUpkeep", Anyone) EXCEPT
                            !.requestId = requestId,
                            !.events = <<RequestedRaffleWinner(requestId)>>,
                            !.requests = <<requestId>>]
            /\ UNCHANGED <<s_players, s_recentWinner, s_lastTimeStamp, balance>>
    /\ UNCHANGED <<i_entranceFee, i_interval, blockTimestamp, deposited, entrants,
                   payouts>>

\* ----------------------------------------------------- fulfillRandomWords
indexOfWinner_offByOne(word) == (word + 1) % Len(s_players)

indexOfWinner(word) == word % Len(s_players)

prize_feePerPlayer == i_entranceFee * Len(s_players)

\* value sent to the winner: address(this).balance
prize == balance

recentWinnerAfterRevert_kept(winner) == winner

\* s_recentWinner once the call has reverted with TransferFailed: the
\* assignment made before the transfer is rolled back with everything else.
recentWinnerAfterRevert(winner) == s_recentWinner

playersAfterRevert_cleared == <<>>

\* s_players once the call has reverted with TransferFailed: the array is
\* reset only after the transfer has succeeded.
playersAfterRevert == s_players

playersAfterFulfil_kept == s_players

\* s_players = new address[](0)
playersAfterFulfil == <<>>

newLastTimeStamp_stale == s_lastTimeStamp

\* s_lastTimeStamp = block.timestamp
newLastTimeStamp == blockTimestamp

requestExists_always(requestId) == TRUE

requestExists_issued(requestId) == requestId \in 1..(s_nextRequestId - 1)

\* The VRF coordinator delivers only for a request it has issued and not yet
\* fulfilled; for any other id it reverts with "nonexistent request".
requestExists(requestId) == requestId \in s_requests

\* The VRF coordinator is asked to fulfil a request it does not hold: the
\* call reverts in the coordinator and never reaches the raffle.
fulfillNonexistentRequest(requestId) ==
    /\ ~requestExists(requestId)
    /\ tx' = [Call("fulfillRandomWords", Coordinator) EXCEPT
                    !.requestId = requestId,
                    !.error = "nonexistent request"]
    /\ UNCHANGED <<i_entranceFee, i_interval, storage, blockTimestamp,
                   s_nextRequestId, s_requests, deposited, entrants, payouts>>

stateDuringTransfer_reset == OPEN

\* s_raffleState while the winner's receive function runs: the transfer
\* comes before the raffle is reopened.
stateDuringTransfer == s_raffleState

\* What the winner's receive function may call back into the raffle.
NestedCalls ==
    {[op |-> "none", value |-> 0],
     [op |-> "enterRaffle", value |-> i_entranceFee],
     [op |-> "performUpkeep", value |-> 0]}

\* How a call made from the winner's receive function ends: it runs against
\* the storage of the moment of the transfer, s_players not yet reset,
\* s_raffleState not yet reopened, the balance already sent.
nestedError(nested) ==
    IF nested.op = "enterRaffle"
    THEN IF nested.value < i_entranceFee THEN "NotEnoughETHEntered"
         ELSE IF stateDuringTransfer = CALCULATING THEN "NotOpen"
         ELSE "none"
    ELSE IF nested.op = "performUpkeep"
    THEN IF /\ stateDuringTransfer = OPEN
            /\ (blockTimestamp - s_lastTimeStamp) > i_interval
            /\ Len(s_players) > 0
            /\ balance - prize > 0
         THEN "none" ELSE "UpkeepNotNeeded"
    ELSE "none"

\* The VRF coordinator delivers the random word of an open request.
\* callSuccess: whether the winner accepts the payment.
\* redeliver: whether the coordinator keeps a request whose callback reverted.
\* nested: the call a winning contract makes from its receive function and
\* whose failure it catches; when the payment is refused the revert undoes
\* whatever was called, so nested calls are drawn for accepted payments only.
fulfillRandomWords(requestId, word, callSuccess, redeliver, nested) ==
    /\ requestExists(requestId)
    /\ IF Len(s_players) = 0
       THEN \* modulo by zero: Panic(0x12)
            /\ nested.op = "none"
            /\ tx' = [Call("fulfillRandomWords", Coordinator) EXCEPT
                            !.requestId = requestId, !.word = word,
                                    !.players = s_players,
                            !.error = "Panic"]
            /\ s_requests' = IF redeliver THEN s_requests
                              ELSE s_requests \ {requestId}
            /\ UNCHANGED <<storage, deposited, entrants, payouts, s_nextRequestId>>
       ELSE LET winner == s_players[indexOfWinner(word) + 1] IN
            /\ callSuccess \/ winner \in ContractAccounts
            /\ nested.op = "none" \/ (callSuccess /\ winner \in ContractAccounts)
            /\ IF ~callSuccess
               THEN /\ tx' = [Call("fulfillRandomWords", Coordinator) EXCEPT
                                    !.requestId = requestId, !.word = word,
                                    !.players = s_players,
                                    !.error = "TransferFailed"]
                    /\ s_recentWinner' = recentWinnerAfterRevert(winner)
                    /\ s_players' = playersAfterRevert
                    /\ s_requests' = IF redeliver THEN s_requests
                                      ELSE s_requests \ {requestId}
                    /\ UNCHANGED <<s_raffleState, s_lastTimeStamp, balance,
                                   deposited, entrants, payouts, s_nextRequestId>>
               ELSE LET error == nestedError(nested)
                        entered == nested.op = "enterRaffle" /\ error = "none"
                        requested == nested.op = "performUpkeep" /\ error = "none"
                    IN
                    /\ s_recentWinner' = winner
                    /\ balance' = balance - prize
                                    + (IF entered THEN nested.value ELSE 0)
                    /\ s_players' = playersAfterFulfil
                    /\ s_lastTimeStamp' = newLastTimeStamp
                    /\ s_raffleState' = OPEN
                    /\ deposited' = IF entered THEN nested.value ELSE 0
                    /\ entrants' = IF entered THEN <<winner>> ELSE <<>>
                    /\ payouts' = payouts + 1
                    /\ s_requests' = (s_requests \ {requestId}) \cup
                            (IF requested THEN {s_nextRequestId} ELSE {})
                    /\ s_nextRequestId' =
                            s_nextRequestId + (IF requested THEN 1 ELSE 0)
                    /\ tx' = [Call("fulfillRandomWords", Coordinator) EXCEPT
                                    !.requestId = requestId, !.word = word,
                                    !.players = s_players,
                                    !.nested = [op |-> nested.op,
                                                value |-> nested.value,
                                                error |-> error],
                                    !.events =
                                        (IF entered THEN <<RaffleEnter(winner)>>
                                         ELSE IF requested
                                         THEN <<RequestedRaffleWinner(s_nextRequestId)>>
                                         ELSE <<>>)
                                        \o <<WinnerPicked(winner)>>,
                                    !.requests =
                                        IF requested THEN <<s_nextRequestId>>
                                        ELSE <<>>,
                                    !.transfers = <<[to |-> winner,
                                                     value |-> prize]>>]
    /\ UNCHANGED <<i_entranceFee, i_interval, blockTimestamp>>

\* ---------------------------------------------------------------- getters
\* require(s_players.length > 0, "No players participated!"), then the
\* bounds check of the array access: Panic(0x32).
getPlayerError(idx) ==
    IF Len(s_players) = 0 THEN "No players participated!"
    ELSE IF idx >= Len(s_players) THEN "Panic(0x32)"
    ELSE "none"

playerAt_first(idx) == s_players[1]

\* s_players[_idx], counted from 0
playerAt(idx) == s_players[idx + 1]

getPlayer(idx) ==
    LET error == getPlayerError(idx) IN
    /\ tx' = [Call("getPlayer", Anyone) EXCEPT
                    !.index = idx, !.error = error,
                    !.player = IF error = "none" THEN playerAt(idx)
                               ELSE ZeroAddress]
    /\ UNCHANGED <<i_entranceFee, i_interval, storage, blockTimestamp,
                   s_nextRequestId, s_requests, deposited, entrants, payouts>>

\* msg.value tried: one below the fee, the fee and, until an entry of the
\* round has paid more than the fee, one above
Values ==
    {v \in (i_entranceFee - 1)..(i_entranceFee + 1) :
        /\ v >= 0
        /\ v > i_entranceFee => deposited = i_entranceFee * Len(s_players)}

\* random words delivered: the two smallest, the word of the four-player
\* scenario and the largest
Words == {0, 1, 5, MaxWord}

\* indices tried: every valid one and the first one past the end
Indices == 0..Len(s_players)

\* request ids tried: the id issued last (0 before the first request) and
\* the id the coordinator has not issued yet
RequestIds == {s_nextRequestId - 1, s_nextRequestId}

Next ==
    \/ Mine
    \/ \E a \in Addresses, v \in Values : enterRaffle(a, v)
    \/ checkUpkeep
    \/ \E ok \in BOOLEAN : performUpkeep(ok)
    \/ \E id \in RequestIds :
           /\ requestExists(id)
           /\ \E w \in Words, ok \in BOOLEAN, re \in BOOLEAN,
                 n \in NestedCalls :
                  fulfillRandomWords(id, w, ok, re, n)
    \/ \E id \in RequestIds : fulfillNonexistentRequest(id)
    \/ \E idx \in Indices : getPlayer(idx)

Spec == Init /\ [][Next]_vars

\* ------------------------------------------------- the raffle kept running
\* The transactions that write the raffle's storage, under the scheduling of
\* a live deployment: a request the coordinator holds stays deliverable
\* until its callback succeeds (a reverted callback is redelivered).
LiveNext ==
    \/ Mine
    \/ \E a \in Addresses, v \in Values : enterRaffle(a, v)
    \/ checkUpkeep
    \/ \E ok \in BOOLEAN : performUpkeep(ok)
    \/ \E id \in RequestIds :
           /\ requestExists(id)
           /\ \E w \in Words, ok \in BOOLEAN, n \in NestedCalls :
                  fulfillRandomWords(id, w, ok, TRUE, n)

\* The keeper performs the upkeep with the coordinator accepting the request.
KeeperPerforms == performUpkeep(TRUE)

\* The coordinator delivers a word and the winner accepts the payment.
OracleDeliversAndPays ==
    \E id \in RequestIds, w \in Words, n \in NestedCalls :
        fulfillRandomWords(id, w, TRUE, TRUE, n)

\* Blocks keep being mined, the keeper keeps performing the upkeep, the
\* coordinator keeps delivering and the payment goes through.
LiveSpec ==
    /\ Init
    /\ [][LiveNext]_vars
    /\ WF_vars(Mine)
    /\ WF_vars(KeeperPerforms)
    /\ WF_vars(OracleDeliversAndPays)
\* ================================================================ claims

\* C1: checkUpkeep returns true if and only if, at the time of the call, the
\* raffle is OPEN, strictly more than i_interval has elapsed since
\* s_lastTimeStamp, there is at least one player and the balance is positive.
C1_CheckUpkeepIff ==
    tx.op = "checkUpkeep" =>
        (tx.ret <=> /\ s_raffleState = OPEN
                    /\ blockTimestamp - s_lastTimeStamp > i_interval
                    /\ Len(s_players) > 0
                    /\ balance > 0)

C1_Witness ==
    /\ tx.op = "checkUpkeep"
    /\ tx.ret = TRUE
    /\ blockTimestamp - s_lastTimeStamp = i_interval + 1

\* C2: enterRaffle with msg.value below i_entranceFee reverts with
\* NotEnoughETHEntered and changes neither the players, the balance, the
\* raffle state, the last timestamp nor the recent winner; enterRaffle with
\* msg.value equal to i_entranceFee while the raffle is OPEN succeeds.
C2_EnterFeeBoundary ==
    [][/\ (tx'.op = "enterRaffle" /\ tx'.value < i_entranceFee) =>
            /\ tx'.error = "NotEnoughETHEntered"
            /\ UNCHANGED <<s_players, balance, s_raffleState,
                           s_lastTimeStamp, s_recentWinner>>
       /\ (tx'.op = "enterRaffle" /\ tx'.value = i_entranceFee
             /\ s_raffleState = OPEN) =>
            /\ tx'.error = "none"
            /\ Len(s_players') = Len(s_players) + 1]_vars

C2_Witness ==
    /\ tx.op = "enterRaffle"
    /\ tx.value = i_entranceFee - 1
    /\ tx.error = "NotEnoughETHEntered"
    /\ Len(s_players) > 0

\* C3 as stated: for every msg.value, enterRaffle while the raffle is
\* CALCULATING reverts with NotOpen and leaves players and balance unchanged.
C3_Original ==
    [][(tx'.op = "enterRaffle" /\ s_raffleState = CALCULATING) =>
            /\ tx'.error = "NotOpen"
            /\ UNCHANGED <<s_players, balance>>]_vars

\* C3 amended: for every msg.value, enterRaffle while the raffle is
\* CALCULATING reverts and leaves players and balance unchanged; the error is
\* NotOpen when msg.value >= i_entranceFee and NotEnoughETHEntered when
\* msg.value < i_entranceFee (the fee is checked first).
C3_EnterWhileCalculating ==
    [][(tx'.op = "enterRaffle" /\ s_raffleState = CALCULATING) =>
            /\ tx'.error = IF tx'.value < i_entranceFee
                           THEN "NotEnoughETHEntered" ELSE "NotOpen"
            /\ tx'.events = <<>>
            /\ UNCHANGED <<s_players, balance>>]_vars

C3_Witness ==
    /\ tx.op = "enterRaffle"
    /\ tx.error = "NotOpen"
    /\ tx.value > i_entranceFee
    /\ s_raffleState = CALCULATING

\* C4: a successful enterRaffle appends msg.sender exactly once at the end
\* of s_players (earlier entries keep their order, a repeated sender is
\* appended again), adds exactly msg.value to the balance, emits
\* RaffleEnter(msg.sender), and leaves the raffle state, the last timestamp
\* and the recent winner unchanged.
C4_EnterEffect ==
    [][(tx'.op = "enterRaffle" /\ tx'.error = "none") =>
            /\ s_players' = s_players \o <<tx'.sender>>
            /\ balance' = balance + tx'.value
            /\ tx'.events = <<RaffleEnter(tx'.sender)>>
            /\ UNCHANGED <<s_raffleState, s_lastTimeStamp, s_recentWinner>>]_vars

C4_Witness ==
    /\ tx.op = "enterRaffle"
    /\ tx.error = "none"
    /\ tx.value > i_entranceFee
    /\ Len(s_players) = 3
    /\ s_players[1] = tx.sender
    /\ s_players[3] = tx.sender
    /\ s_players[2] # tx.sender
\* C5: performUpkeep called by anyone while checkUpkeep's condition does not
\* hold (raffle not OPEN, interval not elapsed, no players or no balance)
\* reverts with UpkeepNotNeeded, sends no request to the VRF coordinator,
\* emits no RequestedRaffleWinner and leaves the raffle unchanged.
C5_PerformUpkeepNotNeeded ==
    [][(/\ tx'.op = "performUpkeep"
        /\ ~(/\ s_raffleState = OPEN
             /\ blockTimestamp - s_lastTimeStamp > i_interval
             /\ Len(s_players) > 0
             /\ balance > 0)) =>
            /\ tx'.error = "UpkeepNotNeeded"
            /\ tx'.requests = <<>>
            /\ tx'.events = <<>>
            /\ UNCHANGED <<s_raffleState, s_players, s_recentWinner,
                           s_lastTimeStamp, balance, s_requests,
                           s_nextRequestId>>]_vars

C5_Witness ==
    /\ tx.op = "performUpkeep"
    /\ tx.error = "UpkeepNotNeeded"
    /\ tx.requests = <<>>
    /\ s_raffleState = CALCULATING
    /\ blockTimestamp - s_lastTimeStamp > i_interval

\* C6: performUpkeep succeeds only from a state where checkUpkeep's
\* condition holds, and in that one step closes the raffle (CALCULATING),
\* sends exactly one request to the VRF coordinator and emits
\* RequestedRaffleWinner with the id the coordinator returned; the players,
\* the balance, the last timestamp and the recent winner stay as they were.
C6_PerformUpkeepEffect ==
    [][(tx'.op = "performUpkeep" /\ tx'.error = "none") =>
            /\ s_raffleState = OPEN
            /\ blockTimestamp - s_lastTimeStamp > i_interval
            /\ Len(s_players) > 0
            /\ balance > 0
            /\ s_raffleState' = CALCULATING
            /\ Len(tx'.requests) = 1
            /\ s_requests' = s_requests \cup {tx'.requests[1]}
            /\ tx'.requests[1] \notin s_requests
            /\ tx'.events = <<RequestedRaffleWinner(tx'.requests[1])>>
            /\ UNCHANGED <<s_players, balance, s_lastTimeStamp,
                           s_recentWinner>>]_vars

C6_Witness ==
    /\ tx.op = "performUpkeep"
    /\ tx.error = "none"
    /\ s_raffleState = CALCULATING
    /\ tx.requests = <<2>>
    /\ s_requests = {2}

\* C7: a successful fulfillRandomWords picks the player at index
\* (randomWords[0] mod s_players.length) of s_players, counted from 0 in
\* entry order, and pays that player (four players and the word 5 pick the
\* second entrant).
C7_WinnerIndex ==
    [][(tx'.op = "fulfillRandomWords" /\ tx'.error = "none") =>
            /\ Len(s_players) > 0
            /\ s_recentWinner' = s_players[(tx'.word % Len(s_players)) + 1]
            /\ Len(tx'.transfers) = 1
            /\ tx'.transfers[1].to = s_players[(tx'.word % Len(s_players)) + 1]]_vars

C7_Witness ==
    /\ tx.op = "fulfillRandomWords"
    /\ tx.error = "none"
    /\ tx.word = 5
    /\ Len(tx.players) = 4
    /\ tx.players[1] # tx.players[2]
    /\ s_recentWinner = tx.players[2]

\* C8: after a successful fulfillRandomWords the recent winner is the player
\* picked, s_players is empty, s_lastTimeStamp is the block timestamp of the
\* call and differs from its value before, the raffle is OPEN, no request is
\* open at the coordinator, and WinnerPicked(winner) has been emitted.
C8_FulfillResets ==
    [][(tx'.op = "fulfillRandomWords" /\ tx'.error = "none") =>
            /\ s_recentWinner' \in {s_players[i] : i \in 1..Len(s_players)}
            /\ s_recentWinner' = tx'.transfers[1].to
            /\ s_players' = <<>>
            /\ s_lastTimeStamp' = blockTimestamp'
            /\ s_lastTimeStamp' # s_lastTimeStamp
            /\ s_raffleState' = OPEN
            /\ s_requests' = {}
            /\ tx'.events = <<WinnerPicked(s_recentWinner')>>]_vars

C8_Witness ==
    /\ tx.op = "fulfillRandomWords"
    /\ tx.error = "none"
    /\ s_players = <<>>
    /\ s_raffleState = OPEN
    /\ s_recentWinner = "alice"
    /\ s_lastTimeStamp = blockTimestamp
    /\ s_nextRequestId = 2

\* C9: a successful fulfillRandomWords sends the whole balance to the winner
\* in one transfer and nothing to anyone else: the amount is the sum of the
\* msg.value of all entries accepted in the round (i_entranceFee times the
\* number of players when each paid exactly the fee), and the balance is 0
\* afterwards.
C9_WholePoolToWinner ==
    [][(tx'.op = "fulfillRandomWords" /\ tx'.error = "none") =>
            /\ tx'.transfers = <<[to |-> s_recentWinner', value |-> deposited]>>
            /\ deposited >= i_entranceFee * Len(s_players)
            /\ balance' = 0]_vars

C9_Witness ==
    /\ tx.op = "fulfillRandomWords"
    /\ tx.error = "none"
    /\ Len(tx.players) = 2
    /\ Len(tx.transfers) = 1
    /\ tx.transfers[1].value > i_entranceFee * Len(tx.players)
    /\ balance = 0

\* C10: when the transfer to the winner fails, fulfillRandomWords reverts
\* with TransferFailed and the raffle is as it was before the call: the
\* recent winner, the players, the balance and the last timestamp are
\* unchanged, the raffle is still CALCULATING and no WinnerPicked is emitted.
C10_TransferFailedRollsBack ==
    [][(tx'.op = "fulfillRandomWords" /\ tx'.error = "TransferFailed") =>
            /\ UNCHANGED <<s_recentWinner, s_players, balance,
                           s_lastTimeStamp, s_raffleState, deposited>>
            /\ s_raffleState' = CALCULATING
            /\ tx'.events = <<>>
            /\ tx'.transfers = <<>>]_vars

C10_Witness ==
    /\ tx.op = "fulfillRandomWords"
    /\ tx.error = "TransferFailed"
    /\ s_recentWinner # "carol"
    /\ Len(s_players) > 1
    /\ balance > 0
\* C11: a delivery for a request id that is not the open request of the
\* raffle fails (the coordinator's "nonexistent request") and leaves the
\* raffle unchanged: no winner is chosen, nothing is paid, the raffle state
\* stays as it is.
C11_UnknownRequest ==
    [][(tx'.op = "fulfillRandomWords" /\ tx'.requestId \notin s_requests) =>
            /\ tx'.error = "nonexistent request"
            /\ tx'.transfers = <<>>
            /\ tx'.events = <<>>
            /\ UNCHANGED <<s_raffleState, s_players, s_recentWinner,
                           s_lastTimeStamp, balance, s_requests>>]_vars

C11_Witness ==
    /\ tx.op = "fulfillRandomWords"
    /\ tx.error = "nonexistent request"
    /\ s_raffleState = CALCULATING
    /\ s_requests = {1}
    /\ tx.requestId = 2
    /\ Len(s_players) > 0
    /\ balance > 0

\* C12: each request issued by a successful performUpkeep is paid out at
\* most once: a paying fulfillRandomWords consumes an open request, request
\* ids are never issued twice, the number of payouts plus open requests never
\* exceeds the number of requests issued, and a delivery of an id that is no
\* longer open (a second delivery, or one after the round was resolved) pays
\* nothing, emits no WinnerPicked and changes neither the players, the
\* balance, the raffle state nor the recent winner.
C12_ExactlyOncePayout ==
    [][/\ payouts' + Cardinality(s_requests') <= s_nextRequestId' - 1
       /\ s_nextRequestId' >= s_nextRequestId
       /\ s_requests' \ s_requests \subseteq {s_nextRequestId}
       /\ \A id \in s_requests' : id < s_nextRequestId'
       /\ payouts' \in {payouts, payouts + 1}
       /\ (payouts' = payouts + 1) <=>
              (tx'.op = "fulfillRandomWords" /\ tx'.error = "none"
                 /\ Len(tx'.transfers) = 1)
       /\ (tx'.op = "fulfillRandomWords" /\ tx'.error = "none") =>
              /\ tx'.requestId \in s_requests
              /\ s_requests' = s_requests \ {tx'.requestId}
              /\ s_raffleState = CALCULATING
       /\ (tx'.op = "fulfillRandomWords" /\ tx'.requestId < s_nextRequestId
             /\ tx'.requestId \notin s_requests) =>
              /\ tx'.error # "none"
              /\ tx'.transfers = <<>>
              /\ tx'.events = <<>>
              /\ UNCHANGED <<s_players, balance, s_raffleState,
                             s_recentWinner>>]_vars

C12_Witness ==
    /\ tx.op = "fulfillRandomWords"
    /\ tx.error = "nonexistent request"
    /\ tx.requestId = 1
    /\ payouts = 1
    /\ s_raffleState = OPEN
    /\ Len(s_players) > 0
    /\ balance > 0
\* C13: whenever the raffle is CALCULATING there is at least one player, so
\* the modulo by s_players.length in fulfillRandomWords never divides by
\* zero (no call ends in the division-by-zero panic).
C13_PlayersWhileCalculating ==
    /\ s_raffleState = CALCULATING => Len(s_players) > 0
    /\ tx.error # "Panic"

C13_Witness ==
    /\ s_raffleState = CALCULATING
    /\ Len(s_players) = 1
    /\ tx.op = "fulfillRandomWords"
    /\ tx.error = "TransferFailed"

\* C14: in every state the balance is the sum of msg.value of the entries
\* accepted since the last paying fulfillRandomWords (or since deployment),
\* each accepted entry paid at least i_entranceFee, and right after a paying
\* fulfillRandomWords the balance is 0 and s_players is empty.
C14_BalanceIsSumOfEntries ==
    /\ balance = deposited
    /\ deposited >= i_entranceFee * Len(s_players)
    /\ (tx.op = "enterRaffle" /\ tx.error = "none") => tx.value >= i_entranceFee
    /\ (tx.op = "fulfillRandomWords" /\ tx.error = "none") =>
            (balance = 0 /\ Len(s_players) = 0)

C14_Witness ==
    /\ payouts = 1
    /\ Len(s_players) = 3
    /\ balance = 3 * i_entranceFee + 1
    /\ tx.op = "enterRaffle"
    /\ tx.error = "none"

\* C15: the raffle state changes only from OPEN to CALCULATING in a
\* successful performUpkeep and from CALCULATING to OPEN in a successful
\* fulfillRandomWords.  RequestedRaffleWinner is emitted exactly on the first
\* kind of step and WinnerPicked exactly on the second, so the two alternate,
\* starting with RequestedRaffleWinner; fulfillRandomWords never succeeds
\* while OPEN; RaffleEnter is emitted only while OPEN.
C15_PhaseAlternation ==
    [][/\ (s_raffleState' # s_raffleState) =>
            \/ /\ s_raffleState = OPEN
               /\ tx'.op = "performUpkeep"
               /\ tx'.error = "none"
            \/ /\ s_raffleState = CALCULATING
               /\ tx'.op = "fulfillRandomWords"
               /\ tx'.error = "none"
       /\ (tx'.op = "performUpkeep" /\ tx'.error = "none") =>
            (s_raffleState = OPEN /\ s_raffleState' = CALCULATING)
       /\ (tx'.op = "fulfillRandomWords" /\ tx'.error = "none") =>
            (s_raffleState = CALCULATING /\ s_raffleState' = OPEN
               /\ s_nextRequestId > 1)
       /\ \A i \in 1..Len(tx'.events) :
            /\ tx'.events[i].name = "RequestedRaffleWinner" =>
                 (s_raffleState = OPEN /\ s_raffleState' = CALCULATING)
            /\ tx'.events[i].name = "WinnerPicked" =>
                 (s_raffleState = CALCULATING /\ s_raffleState' = OPEN)
            /\ tx'.events[i].name = "RaffleEnter" =>
                 (s_raffleState = OPEN /\ s_raffleState' = OPEN)
       /\ (s_raffleState = OPEN /\ s_raffleState' = CALCULATING) =>
            tx'.events = <<RequestedRaffleWinner(tx'.requestId)>>
       /\ (s_raffleState = CALCULATING /\ s_raffleState' = OPEN) =>
            tx'.events = <<WinnerPicked(s_recentWinner')>>]_vars

C15_Witness ==
    /\ tx.op = "fulfillRandomWords"
    /\ tx.error = "none"
    /\ tx.events = <<WinnerPicked(s_recentWinner)>>
    /\ payouts = 2
    /\ s_raffleState = OPEN
\* C16: checkUpkeep is read-only and idempotent: a call, in any state and
\* also while CALCULATING, changes nothing of the raffle, emits and sends
\* nothing, and a call that directly follows another call (no mutation and
\* no new block in between) returns the same result.
C16_CheckUpkeepReadOnly ==
    [][(tx'.op = "checkUpkeep") =>
            /\ UNCHANGED <<s_raffleState, s_players, s_recentWinner,
                           s_lastTimeStamp, balance, blockTimestamp,
                           s_requests, s_nextRequestId, i_entranceFee,
                           i_interval>>
            /\ tx'.events = <<>>
            /\ tx'.transfers = <<>>
            /\ tx'.requests = <<>>
            /\ tx'.error = "none"
            /\ (tx.op = "checkUpkeep" => tx'.ret = tx.ret)]_vars

C16_Witness ==
    /\ tx.op = "checkUpkeep"
    /\ tx.ret = FALSE
    /\ s_raffleState = CALCULATING
    /\ blockTimestamp - s_lastTimeStamp > i_interval
    /\ balance > 0

\* C17: right after construction the raffle is OPEN with no players, the
\* last timestamp is the deployment time and no winner is recorded; the fee
\* and the interval given to the constructor never change; the recent winner
\* stays unset until the first paying fulfillRandomWords and is changed by
\* nothing else.
C17_InitialState ==
    /\ (/\ s_raffleState = OPEN
        /\ s_players = <<>>
        /\ s_lastTimeStamp = DeployTime
        /\ blockTimestamp = DeployTime
        /\ s_recentWinner = ZeroAddress
        /\ i_entranceFee \in 0..MaxFee
        /\ i_interval \in 1..MaxInterval)
    /\ [](payouts = 0 <=> s_recentWinner = ZeroAddress)
    /\ [][/\ UNCHANGED <<i_entranceFee, i_interval>>
          /\ (s_recentWinner' # s_recentWinner) =>
                (tx'.op = "fulfillRandomWords" /\ tx'.error = "none")]_vars

C17_Witness ==
    /\ payouts = 0
    /\ s_recentWinner = ZeroAddress
    /\ tx.op = "fulfillRandomWords"
    /\ tx.error = "TransferFailed"
    /\ s_lastTimeStamp = DeployTime

\* C18: getPlayer(i) fails whenever i >= s_players.length (in particular
\* whenever s_players is empty) and otherwise returns the i-th entrant,
\* counted from 0 in entry order; it changes no state.
C18_GetPlayer ==
    [][(tx'.op = "getPlayer") =>
            /\ (tx'.index >= Len(s_players)) => tx'.error # "none"
            /\ (Len(s_players) = 0) => tx'.error = "No players participated!"
            /\ (tx'.index < Len(s_players)) =>
                    /\ tx'.error = "none"
                    /\ tx'.player = s_players[tx'.index + 1]
            /\ UNCHANGED <<s_raffleState, s_players, s_recentWinner,
                           s_lastTimeStamp, balance, blockTimestamp,
                           s_requests, s_nextRequestId>>]_vars

C18_Witness ==
    /\ tx.op = "getPlayer"
    /\ tx.error = "none"
    /\ tx.index = 2
    /\ Len(s_players) = 4
    /\ tx.player = s_players[3]
    /\ tx.player # s_players[1]
\* C19 as stated (the step that fails): in a fresh raffle whose only entry
\* is alice's, paid with exactly the fee, checkUpkeep returns true as soon as
\* the time elapsed since s_lastTimeStamp is >= i_interval.
C19_Original ==
    (/\ tx.op = "checkUpkeep"
     /\ payouts = 0
     /\ s_raffleState = OPEN
     /\ i_entranceFee > 0
     /\ s_players = <<"alice">>
     /\ balance = i_entranceFee
     /\ blockTimestamp - s_lastTimeStamp >= i_interval) => tx.ret

\* C19 amended: in a fresh raffle with a positive fee whose only entry is
\* alice's, paid with exactly the fee: while the elapsed time is <=
\* i_interval checkUpkeep returns false and performUpkeep reverts; once it
\* is > i_interval checkUpkeep returns true and performUpkeep (the
\* coordinator accepting the request) succeeds and closes the raffle; a
\* fulfillRandomWords with the word 7 then picks alice, pays her the fee,
\* empties s_players and reopens the raffle.
C19_ScenarioA ==
    [][(/\ payouts = 0
        /\ i_entranceFee > 0
        /\ s_players = <<"alice">>
        /\ balance = i_entranceFee) =>
          /\ (tx'.op = "checkUpkeep") =>
                (tx'.ret <=> (s_raffleState = OPEN
                              /\ blockTimestamp - s_lastTimeStamp > i_interval))
          /\ (tx'.op = "performUpkeep"
                /\ blockTimestamp - s_lastTimeStamp <= i_interval) =>
                (tx'.error = "UpkeepNotNeeded" /\ s_raffleState' = s_raffleState)
          /\ (tx'.op = "performUpkeep" /\ s_raffleState = OPEN
                /\ blockTimestamp - s_lastTimeStamp > i_interval
                /\ tx'.error # "CoordinatorReverted") =>
                (tx'.error = "none" /\ s_raffleState' = CALCULATING)
          /\ (tx'.op = "fulfillRandomWords" /\ tx'.word = 7
                /\ tx'.error = "none") =>
                /\ s_raffleState = CALCULATING
                /\ s_recentWinner' = "alice"
                /\ tx'.transfers = <<[to |-> "alice", value |-> i_entranceFee]>>
                /\ s_players' = <<>>
                /\ balance' = 0
                /\ s_raffleState' = OPEN]_vars

C19_Witness ==
    /\ tx.op = "fulfillRandomWords"
    /\ tx.error = "none"
    /\ tx.word = 7
    /\ tx.players = <<"alice">>
    /\ i_entranceFee > 0
    /\ tx.transfers = <<[to |-> "alice", value |-> i_entranceFee]>>
    /\ payouts = 1
    /\ s_recentWinner = "alice"
    /\ s_players = <<>>
    /\ s_raffleState = OPEN
\* The blocks still to be mined take the elapsed time past the interval.
TimeLeft == s_lastTimeStamp + i_interval < MaxTime

\* A winner has just been paid and the raffle is open again and empty.
RoundDone ==
    /\ tx.op = "fulfillRandomWords"
    /\ tx.error = "none"
    /\ \E i \in 1..Len(tx.events) : tx.events[i].name = "WinnerPicked"
    /\ s_raffleState = OPEN
    /\ s_players = <<>>

\* C20 as stated: under the fair scheduling, from any OPEN state with at
\* least one player a winner is eventually picked and the raffle is back
\* OPEN with no players.
C20_Original ==
    (s_raffleState = OPEN /\ Len(s_players) > 0 /\ TimeLeft) ~> RoundDone

\* C20 amended: under the fair scheduling, from any OPEN state with at least
\* one player and a positive balance a winner is eventually picked and the
\* raffle is back OPEN with no players; and the raffle is never stuck: while
\* it is CALCULATING a request is open at the coordinator.
C20_Liveness ==
    /\ (s_raffleState = OPEN /\ Len(s_players) > 0 /\ balance > 0 /\ TimeLeft)
          ~> RoundDone
    /\ [](s_raffleState = CALCULATING => s_requests # {})

C20_Witness ==
    /\ RoundDone
    /\ payouts = 2
    /\ tx.transfers # <<>>
\* C21: while the raffle is CALCULATING, every call other than a
\* fulfillRandomWords that pays the winner (enterRaffle, checkUpkeep,
\* performUpkeep, getPlayer, a delivery that reverts, a mined block) leaves
\* the raffle CALCULATING with s_players and the balance as they were:
\* nothing cancels a round or times it out.
C21_StuckWhileCalculating ==
    [][(/\ s_raffleState = CALCULATING
        /\ ~(tx'.op = "fulfillRandomWords" /\ tx'.error = "none")) =>
          /\ s_raffleState' = CALCULATING
          /\ s_players' = s_players
          /\ balance' = balance]_vars

\* The request was dropped after a payment that failed, and an entry that
\* pays the fee is still turned away.
C21_Witness ==
    /\ s_raffleState = CALCULATING
    /\ s_requests = {}
    /\ tx.op = "enterRaffle"
    /\ tx.value >= i_entranceFee
    /\ tx.error = "NotOpen"
\* C22 as stated: in every reachable state the coordinator holds an open
\* request of the raffle if and only if the raffle is CALCULATING, and it
\* never holds more than one.
C22_Original ==
    /\ (s_requests # {}) <=> (s_raffleState = CALCULATING)
    /\ Cardinality(s_requests) <= 1

\* C22 amended: in every reachable state the coordinator holds an open
\* request of the raffle only if the raffle is CALCULATING, and it never
\* holds more than one; the raffle can be CALCULATING with no open request,
\* after a delivery whose callback reverted and is not delivered again.
C22_OneRequestOnlyWhileCalculating ==
    /\ (s_requests # {}) => (s_raffleState = CALCULATING)
    /\ Cardinality(s_requests) <= 1

\* The second round's request is open.
C22_Witness ==
    /\ s_raffleState = CALCULATING
    /\ s_requests = {2}
    /\ tx.op = "performUpkeep"
    /\ tx.requests = <<2>>
\* C23: a performUpkeep whose request the coordinator rejects reverts
\* whole: the raffle stays OPEN, s_players and the balance are unchanged,
\* nothing is emitted and no request is issued; so the raffle is never
\* CALCULATING without a request having been issued.
C23_CoordinatorRevertRollsBack ==
    /\ [][(tx'.op = "performUpkeep" /\ tx'.error = "CoordinatorReverted") =>
            /\ s_raffleState = OPEN
            /\ s_raffleState' = OPEN
            /\ s_players' = s_players
            /\ balance' = balance
            /\ s_recentWinner' = s_recentWinner
            /\ s_lastTimeStamp' = s_lastTimeStamp
            /\ tx'.events = <<>>
            /\ tx'.requests = <<>>
            /\ s_requests' = s_requests
            /\ s_nextRequestId' = s_nextRequestId]_vars
    /\ [](s_raffleState = CALCULATING => s_nextRequestId > 1)

\* The coordinator has rejected the request of a raffle that was ready.
C23_Witness ==
    /\ tx.op = "performUpkeep"
    /\ tx.error = "CoordinatorReverted"
    /\ s_raffleState = OPEN
    /\ Len(s_players) > 0
    /\ balance > 0
    /\ blockTimestamp - s_lastTimeStamp > i_interval
    /\ s_nextRequestId = 1
\* C24 as stated: in every reachable state the balance equals
\* i_entranceFee times the number of players.
C24_Original == balance = i_entranceFee * Len(s_players)

\* C24 amended: in every reachable state the balance is at least
\* i_entranceFee times the number of players; an entry that pays exactly the
\* fee keeps the two equal, an entry that pays more puts the balance above.
C24_BalanceAtLeastFees ==
    /\ [](balance >= i_entranceFee * Len(s_players))
    /\ [][(tx'.op = "enterRaffle" /\ tx'.error = "none") =>
            /\ (balance = i_entranceFee * Len(s_players)
                   /\ tx'.value = i_entranceFee)
                 => balance' = i_entranceFee * Len(s_players')
            /\ tx'.value > i_entranceFee
                 => balance' > i_entranceFee * Len(s_players')]_vars

\* Two entries, each paid with exactly the fee.
C24_Witness ==
    /\ tx.op = "enterRaffle"
    /\ tx.error = "none"
    /\ tx.value = i_entranceFee
    /\ i_entranceFee > 0
    /\ Len(s_players) = 2
    /\ balance = i_entranceFee * 2
\* C25: s_players and the balance are frozen while the raffle is
\* CALCULATING: the performUpkeep that closes the raffle and every step that
\* leaves it CALCULATING keep both, so a fulfillRandomWords reads the players
\* and pays the balance of the moment the round was triggered; s_players
\* gets shorter only in a fulfillRandomWords that pays the winner, which
\* empties it, and otherwise changes only by an accepted entry appended
\* while the raffle is OPEN.
C25_FrozenWhileCalculating ==
    [][/\ s_raffleState' = CALCULATING =>
            (s_players' = s_players /\ balance' = balance)
       /\ (tx'.op = "fulfillRandomWords" /\ tx'.error = "none") =>
            /\ s_raffleState = CALCULATING
            /\ tx'.players = s_players
            /\ tx'.transfers[1].value = balance
            /\ s_players' = <<>>
       /\ s_players' # s_players =>
            \/ /\ tx'.op = "fulfillRandomWords" /\ tx'.error = "none"
            \/ /\ tx'.op = "enterRaffle" /\ tx'.error = "none"
               /\ s_raffleState = OPEN
               /\ s_players' = Append(s_players, tx'.sender)]_vars

\* A delivery whose payment failed has left the round as it was triggered,
\* with two players.
C25_Witness ==
    /\ tx.op = "fulfillRandomWords"
    /\ tx.error = "TransferFailed"
    /\ s_raffleState = CALCULATING
    /\ Len(s_players) = 2
    /\ tx.players = s_players
    /\ balance >= 2 * i_entranceFee
    /\ balance > 0
\* C26: performUpkeep succeeds only when strictly more than i_interval has
\* elapsed since s_lastTimeStamp, which is the time of the construction or
\* of the last fulfillRandomWords that paid a winner: s_lastTimeStamp is
\* changed only by such a fulfillRandomWords, which sets it to the block's
\* time, and it never decreases.
C26_MinimumSpacing ==
    [][/\ (tx'.op = "performUpkeep" /\ tx'.error = "none") =>
            blockTimestamp' - s_lastTimeStamp' > i_interval
       /\ s_lastTimeStamp' # s_lastTimeStamp =>
            /\ tx'.op = "fulfillRandomWords"
            /\ tx'.error = "none"
            /\ s_lastTimeStamp' = blockTimestamp'
       /\ s_lastTimeStamp' >= s_lastTimeStamp]_vars

\* The second round is triggered, more than the interval after the first
\* winner was paid.
C26_Witness ==
    /\ tx.op = "performUpkeep"
    /\ tx.error = "none"
    /\ payouts = 1
    /\ s_lastTimeStamp > DeployTime
    /\ blockTimestamp - s_lastTimeStamp > i_interval
\* C27: when the winner calls enterRaffle (paying the fee) or performUpkeep
\* from within the transfer of a fulfillRandomWords, the nested call reverts
\* (NotOpen, UpkeepNotNeeded) because the raffle is still CALCULATING, and
\* the fulfillRandomWords ends as it does without that call: one transfer of
\* the whole balance to the winner, no entry recorded, no request issued,
\* only WinnerPicked emitted, s_players empty, the balance 0, the raffle
\* OPEN with s_lastTimeStamp the block's time.
C27_ReentrancyHarmless ==
    [][(/\ tx'.op = "fulfillRandomWords"
        /\ tx'.error = "none"
        /\ tx'.nested.op # "none") =>
          /\ s_raffleState = CALCULATING
          /\ tx'.nested.op = "enterRaffle" => tx'.nested.error = "NotOpen"
          /\ tx'.nested.op = "performUpkeep" =>
                tx'.nested.error = "UpkeepNotNeeded"
          /\ tx'.transfers = <<[to |-> s_recentWinner', value |-> balance]>>
          /\ tx'.events = <<WinnerPicked(s_recentWinner')>>
          /\ tx'.requests = <<>>
          /\ payouts' = payouts + 1
          /\ s_players' = <<>>
          /\ balance' = 0
          /\ s_raffleState' = OPEN
          /\ s_lastTimeStamp' = blockTimestamp
          /\ s_nextRequestId' = s_nextRequestId
          /\ s_requests' = s_requests \ {tx'.requestId}]_vars

\* carol has won, has tried to enter again from her receive function and
\* has been paid.
C27_Witness ==
    /\ tx.op = "fulfillRandomWords"
    /\ tx.error = "none"
    /\ tx.nested = [op |-> "enterRaffle", value |-> i_entranceFee,
                    error |-> "NotOpen"]
    /\ s_recentWinner = "carol"
    /\ Len(tx.players) = 2
    /\ tx.transfers[1].value > 0
    /\ s_players = <<>>
    /\ balance = 0
\* C28: the winner a fulfillRandomWords records and pays is the sender of an
\* entry accepted since the previous payout (or since the construction),
\* and these entries are exactly s_players at the performUpkeep that
\* triggers the round; someone who entered only rounds already paid out is
\* not picked; s_recentWinner is changed by nothing but a fulfillRandomWords
\* that pays, and is the zero address until the first one.
C28_WinnerEnteredThisRound ==
    /\ [][/\ (tx'.op = "fulfillRandomWords" /\ tx'.error = "none") =>
                /\ \E i \in 1..Len(entrants) : entrants[i] = s_recentWinner'
                /\ tx'.transfers[1].to = s_recentWinner'
                /\ tx'.events = <<WinnerPicked(s_recentWinner')>>
          /\ (tx'.op = "performUpkeep" /\ tx'.error = "none") =>
                s_players = entrants
          /\ s_recentWinner' # s_recentWinner =>
                (tx'.op = "fulfillRandomWords" /\ tx'.error = "none")]_vars
    /\ [](payouts = 0 => s_recentWinner = ZeroAddress)

\* The second round, entered by alice alone, is paid to alice.
C28_Witness ==
    /\ tx.op = "fulfillRandomWords"
    /\ tx.error = "none"
    /\ payouts = 2
    /\ tx.players = <<"alice">>
    /\ s_recentWinner = "alice"
    /\ tx.transfers[1].to = "alice"
====
